---- MODULE Spec2Model ----
(***************************************************************************)
(* Goal-scroller overlay (overlay/everylunaever/bunathon2025/goal_scroller *)
(* /scripts.mjs): the scroller animation state machine, the poll loop of   *)
(* main() and the one-shot phase timer; and the column sorting of the      *)
(* dashboard's dialogs (tools/everylunaever/bunathon2025/dashboard         *)
(* /scripts.mjs).                                                          *)
(*                                                                         *)
(* JavaScript null is written as the integer -9: totals and goal indexes   *)
(* are naturals, and no arithmetic of the code on them reaches -9.         *)
(* `a ?? b` is OrElse(a, b).                                               *)
(***************************************************************************)
EXTENDS Integers, Sequences, FiniteSets, TLC

\* ---------------------------------------------------------------- bounds
MaxGoals == 5          \* longest catalog explored
MaxThreshold == 5      \* thresholds are drawn from 1..MaxThreshold
MaxInFlight == 2       \* polls whose fetch has not completed yet
EdgeGoals == 2         \* longest catalog of the runs over every key and response
LiveGoals == 2         \* longest catalog of the runs under fairness

\* ------------------------------------------------------------- constants
null == -9
KeyMinLength == 43
KeyMaxLength == 44

VARIABLES
    goals,          \* config.goals: the thresholds (points) of the catalog, ascending
    totalPoints,    \* model.totalPoints: number | null
    animation,      \* model.animation: [type, doneIndex, activeTimeout]
    timers,         \* pending setTimeout callbacks of updateScrollerAnimation:
                    \*   cur = armed on the object that is model.animation now,
                    \*   old = armed on an object that has been replaced since
    counterValue,   \* text of the counterValue element
    mainPc,         \* position of main()
    inflight,       \* fetchAndUpdate calls awaiting fetchState(), oldest first;
                    \*   TRUE = a poll issued later has already completed
    thrown,         \* an unreachable(...) error has been thrown
    lastOp,         \* history: the handler that ran last
    lastResult,     \* history: result of the most recently completed poll
    before,         \* history: model.animation when the last handler started
    held,           \* history: the total every poll delivers (null = any result)
    trace,          \* history: phases entered since Init, kept while recording
    recording,      \* history: whether trace is kept in this run
    key,            \* the `key` parameter of location.search, as KeyInputs describes it
    lastResponse,   \* history: what the most recently completed poll's fetch met
    dialog,         \* dashboard: model.dialog as [type, sortBy], NoDialog for undefined
    clicked,        \* history: class name of the header cell clicked last, "" for none
    sortedBefore    \* history: dialog.sortBy when that click arrived

overlayVars == <<goals, totalPoints, animation, timers, counterValue, mainPc,
                 inflight, thrown, lastOp, lastResult, before, held, trace,
                 recording, key, lastResponse>>

dashboardVars == <<dialog, clicked, sortedBefore>>

vars == <<overlayVars, dashboardVars>>

\* ---------------------------------------------------------------- inputs
RECURSIVE SortedSeq(_)
SortedSeq(S) ==
    IF S = {} THEN <<>>
    ELSE LET m == CHOOSE x \in S : \A y \in S : x <= y
         IN  <<m>> \o SortedSeq(S \ {m})

\* Catalogs as the configuration supplies them: strictly increasing thresholds, N >= 1.
Catalogs ==
    { SortedSeq(S) : S \in { T \in SUBSET (1..MaxThreshold) :
                                Cardinality(T) >= 1 /\ Cardinality(T) <= MaxGoals } }

\* The catalog of n goals with thresholds 1, 2, ..., n.
Ladder(n) == [k \in 1..n |-> k]

PointValues == 0..(MaxThreshold + 1)

KeyInputs ==
    [present : BOOLEAN, length : (KeyMinLength - 1)..(KeyMaxLength + 1),
     importable : BOOLEAN, decrypts : BOOLEAN]

\* The key the overlay URL is handed out with.
PageKey == [present |-> TRUE, length |-> KeyMinLength, importable |-> TRUE, decrypts |-> TRUE]

\* What a poll's fetch can meet: whether fetch() resolves, response.ok, whether
\* response.json() resolves, the kind of the parsed body, whether it has a
\* `total` member, whether that is of type number, and its value if so.
OkResponse(t) ==
    [reachable |-> TRUE, ok |-> TRUE, json |-> TRUE, body |-> "object",
     hasTotal |-> TRUE, totalIsNumber |-> TRUE, total |-> t]

NetworkFailure == [OkResponse(MaxThreshold) EXCEPT !.reachable = FALSE]

FailedResponses ==
    {NetworkFailure,
     [OkResponse(MaxThreshold) EXCEPT !.ok = FALSE],
     [OkResponse(MaxThreshold) EXCEPT !.json = FALSE],
     [OkResponse(MaxThreshold) EXCEPT !.body = "falsy"],
     [OkResponse(MaxThreshold) EXCEPT !.body = "primitive"],
     [OkResponse(MaxThreshold) EXCEPT !.body = "array"],
     [OkResponse(MaxThreshold) EXCEPT !.hasTotal = FALSE],
     [OkResponse(MaxThreshold) EXCEPT !.totalIsNumber = FALSE]}

\* Totals from nothing to one above the last threshold of catalog g.
TotalsFor(g) == 0..(g[Len(g)] + 1)

Responses(g) == {OkResponse(t) : t \in TotalsFor(g)} \cup FailedResponses

\* One response for every result a poll can have.
CanonicalResponses(g) == {OkResponse(t) : t \in TotalsFor(g)} \cup {NetworkFailure}

NoResponse == [OkResponse(0) EXCEPT !.body = "none"]

\* The dashboard's dialogs, and the class names of their header cells.
DialogTypes == {"allSupports", "keychains", "namesOnArtwork", "postcards", "wheelSpins"}

ColumnNames == {"rownum", "points", "supporter", "timestamp"}

NoDialog == [type |-> "none", sortBy |-> <<>>]

\* The worked example of the testable properties.
ExampleCatalog == <<100, 200, 300>>

ExampleResponses ==
    {OkResponse(t) : t \in {0, 100, 150, 200, 250, 300, 350}} \cup {NetworkFailure}

AnimationTypes ==
    {"static", "upwards:begin", "upwards:moving", "upwards:end",
     "downwards:begin", "downwards:moving", "downwards:end"}

\* ------------------------------------------------------- pure functions
OrElse(a, b) == IF a = null THEN b ELSE a

RECURSIVE findLastIndexStrict(_, _, _)
findLastIndexStrict(g, points, k) ==
    IF k < 0 THEN -1
    ELSE IF g[k + 1] < points THEN k
    ELSE findLastIndexStrict(g, points, k - 1)

RECURSIVE findLastIndexAtLeast(_, _, _)
findLastIndexAtLeast(g, points, k) ==
    IF k < 0 THEN -1
    ELSE IF g[k + 1] >= points THEN k
    ELSE findLastIndexAtLeast(g, points, k - 1)

\* config.goals.findLastIndex(x => x.points <= points), scanning from index k down.
RECURSIVE findLastIndex(_, _, _)
findLastIndex(g, points, k) ==
    IF k < 0 THEN -1
    ELSE IF g[k + 1] <= points THEN k
    ELSE findLastIndex(g, points, k - 1)

calculateDoneIndexOneBased(g, points) ==
    LET index == findLastIndex(g, points, Len(g) - 1)
    IN  IF index < 0 THEN null ELSE index + 1

calculateDoneIndex(g, points) ==
    LET index == findLastIndex(g, points, Len(g) - 1)
    IN  IF index < 0 THEN null ELSE index

NewAnimation(type, doneIndex) ==
    [type |-> type, doneIndex |-> doneIndex, activeTimeout |-> FALSE]

initializeAnimation(g, initialPoints) ==
    NewAnimation("static", calculateDoneIndex(g, initialPoints))

NeverActive(a) == FALSE

\* `if (animation.activeTimeout) return;`
TimeoutActive(a) == a.activeTimeout

AlwaysNumber(tp) == TRUE

\* `typeof totalPoints !== "number"` negated
IsNumber(tp) == tp # null

startAnimationAtTarget(currentDoneIndex, targetDoneIndex) ==
    IF OrElse(currentDoneIndex, -1) > OrElse(targetDoneIndex, -1)
    THEN NewAnimation("downwards:begin", currentDoneIndex)
    ELSE NewAnimation("upwards:begin", targetDoneIndex)

startAnimation(currentDoneIndex, targetDoneIndex) ==
    IF OrElse(currentDoneIndex, -1) > OrElse(targetDoneIndex, -1)
    THEN NewAnimation("downwards:begin", currentDoneIndex)
    ELSE NewAnimation("upwards:begin", OrElse(currentDoneIndex, -1) + 1)

StayOnIndex(doneIndex) == doneIndex

StepDownToNull(doneIndex) == null

\* doneIndex of "downwards:end", entered from "downwards:moving"
StepDown(doneIndex) ==
    IF doneIndex = null \/ doneIndex = 0 THEN null ELSE doneIndex - 1

NeverOnCorrectIndex(currentDoneIndex, targetDoneIndex) == FALSE

\* `if (currentDoneIndex === targetDoneIndex) return;` of the "static" case
AlreadyOnCorrectIndex(currentDoneIndex, targetDoneIndex) ==
    currentDoneIndex = targetDoneIndex

ArmNever(updated, currentDoneIndex, targetDoneIndex) == FALSE

ArmUnlessStatic(updated, currentDoneIndex, targetDoneIndex) ==
    updated.type # "static"

\* Whether the switch leaves through `break` (reaching setTimeout) after
\* setAnimation(updated): the two `:end` cases return when the index is on target.
ReachesSetTimeout(updated, currentDoneIndex, targetDoneIndex) ==
    updated.type # "static" \/ currentDoneIndex # targetDoneIndex

\* One call of updateScrollerAnimation on model.animation = a, model.totalPoints = tp.
\*   animation : model.animation afterwards
\*   replaced  : setAnimation was called (model.animation is a new object)
\*   armed     : setTimeout was called
\*   threw     : the default branch threw unreachable(animation)
updateScrollerAnimation(a, tp, g) ==
    LET unchanged == [animation |-> a, replaced |-> FALSE, armed |-> FALSE, threw |-> FALSE]
        currentDoneIndex == a.doneIndex
        targetDoneIndex == calculateDoneIndex(g, tp)
        set(updated) ==
            LET arm == ReachesSetTimeout(updated, currentDoneIndex, targetDoneIndex)
            IN  [animation |-> [updated EXCEPT !.activeTimeout = arm],
                 replaced |-> TRUE, armed |-> arm, threw |-> FALSE]
    IN  IF TimeoutActive(a) THEN unchanged
        ELSE IF ~IsNumber(tp) THEN unchanged
        ELSE CASE a.type = "static" ->
                    IF AlreadyOnCorrectIndex(currentDoneIndex, targetDoneIndex) THEN unchanged
                    ELSE set(startAnimation(currentDoneIndex, targetDoneIndex))
               [] a.type = "upwards:end" -> set(NewAnimation("static", a.doneIndex))
               [] a.type = "downwards:end" -> set(NewAnimation("static", a.doneIndex))
               [] a.type = "upwards:begin" -> set(NewAnimation("upwards:moving", a.doneIndex))
               [] a.type = "upwards:moving" -> set(NewAnimation("upwards:end", a.doneIndex))
               [] a.type = "downwards:begin" -> set(NewAnimation("downwards:moving", a.doneIndex))
               [] a.type = "downwards:moving" ->
                    set(NewAnimation("downwards:end", StepDown(a.doneIndex)))
               [] OTHER -> [unchanged EXCEPT !.threw = TRUE]

\* ------------------------------------------------------- slot projector
\* `undefined` of determineGoalInfo's optional fields is written "none".
AllButLastCompleted == <<"completed", "completed", "completed", "active">>

AllCompleted == <<"completed", "completed", "completed", "completed">>

levelsUncompressed(a, remaining) == <<>>

\* The `levels` array of determineGoalInfo; <<>> stands for undefined.
levels(a, remaining) ==
    CASE remaining = 1 -> AllCompleted
      [] remaining = 2 -> <<"completed", "completed", "completed", "active">>
      [] remaining = 3 -> <<"completed", "completed", "active", "upcoming">>
      [] OTHER ->
            IF a.doneIndex = null /\ a.type = "downwards:end"
            THEN <<"active", "active", "upcoming", "upcoming">>
            ELSE <<>>

\* levels?.[k] ?? default, k counted from 0
LevelOr(lv, k, default) == IF lv = <<>> THEN default ELSE lv[k + 1]

TruthyUnlessNull(doneIndex) == doneIndex # null

\* truthiness of scrollAnimation.doneIndex
Truthy(doneIndex) == doneIndex # null /\ doneIndex # 0

elementAnimation(a, remaining) ==
    CASE a.type = "static" -> [covered |-> "none", others |-> "clear", threw |-> FALSE]
      [] a.type = "upwards:begin" -> [covered |-> "none", others |-> "none", threw |-> FALSE]
      [] a.type = "upwards:moving" ->
            [covered |-> "none",
             others |-> IF a.doneIndex = 0 \/ remaining <= 2 THEN "none" ELSE "up",
             threw |-> FALSE]
      [] a.type = "upwards:end" ->
            [covered |-> "no-box-shadow",
             others |-> IF a.doneIndex = 0 \/ remaining <= 2 THEN "none" ELSE "up",
             threw |-> FALSE]
      [] a.type = "downwards:begin" ->
            [covered |-> "no-box-shadow",
             others |-> IF Truthy(a.doneIndex) /\ remaining > 2 THEN "down" ELSE "none",
             threw |-> FALSE]
      [] a.type = "downwards:moving" ->
            [covered |-> "none",
             others |-> IF Truthy(a.doneIndex) /\ remaining > 2 THEN "down" ELSE "none",
             threw |-> FALSE]
      [] a.type = "downwards:end" ->
            [covered |-> "no-box-shadow",
             others |-> IF Truthy(a.doneIndex) /\ remaining > 2 THEN "clear" ELSE "none",
             threw |-> FALSE]
      [] OTHER -> [covered |-> "none", others |-> "none", threw |-> TRUE]

Hidden ==
    [visible |-> FALSE, state |-> "none", position |-> 0, animation |-> "none", threw |-> FALSE]

ShownInTopRow(state, position, anim) ==
    [visible |-> TRUE, state |-> state, position |-> 0, animation |-> anim, threw |-> FALSE]

ShownUntagged(state, position, anim) ==
    [visible |-> TRUE, state |-> state, position |-> position, animation |-> "none", threw |-> FALSE]

Shown(state, position, anim) ==
    [visible |-> TRUE, state |-> state, position |-> position, animation |-> anim, threw |-> FALSE]

StaticPickersWide(picker) == picker \in -1..2

\* The picker values the "static" case has a `case` for; the rest hit `default: return`.
StaticPickers(picker) == picker \in 0..2

\* determineGoalInfo(index, goal) on model.animation = a with model.goals.length = n.
determineGoalInfo(index, a, n) ==
    LET position == index - OrElse(a.doneIndex, 0)
        remaining == n - OrElse(a.doneIndex, 0)
        lv == levels(a, remaining)
        ea == elementAnimation(a, remaining)
        picker == position + (IF remaining <= 3 THEN 3 - remaining ELSE 0)
        positionOffset == IF OrElse(a.doneIndex, -1) >= 1 /\ remaining >= 3 THEN 1 ELSE 0
    IN  IF position < -2 THEN Hidden
        ELSE IF ea.threw THEN [Hidden EXCEPT !.threw = TRUE]
        ELSE IF a.type = "static"
        THEN IF ~StaticPickers(picker) THEN Hidden
             ELSE IF a.doneIndex = null
             THEN CASE picker = 0 -> Shown(LevelOr(lv, picker + 1, "active"), picker, ea.others)
                    [] picker = 1 -> Shown(LevelOr(lv, picker + 1, "upcoming"), picker, ea.others)
                    [] OTHER -> Shown(LevelOr(lv, picker + 1, "upcoming"), picker, ea.others)
             ELSE CASE picker = 0 -> Shown(LevelOr(lv, picker + 1, "completed"), picker, ea.others)
                    [] picker = 1 -> Shown(LevelOr(lv, picker + 1, "active"), picker, ea.others)
                    [] OTHER -> Shown(LevelOr(lv, picker + 1, "upcoming"), picker, ea.others)
        ELSE CASE picker = -1 ->
                    IF remaining <= 2 THEN Hidden
                    ELSE Shown(LevelOr(lv, picker + 1, "completed"), picker + positionOffset, ea.covered)
               [] picker = 0 -> Shown(LevelOr(lv, picker + 1, "completed"), picker + positionOffset, ea.others)
               [] picker = 1 -> Shown(LevelOr(lv, picker + 1, "active"), picker + positionOffset, ea.others)
               [] picker = 2 -> Shown(LevelOr(lv, picker + 1, "upcoming"), picker + positionOffset, ea.others)
               [] OTHER -> Hidden

\* The goal indexes renderGoal leaves in (or puts into) goalsContainer.
VisibleGoals(a, n) == {i \in 0..(n - 1) : determineGoalInfo(i, a, n).visible}

\* renderGoals(): updateScrollerAnimation(), then renderGoal(i) for every goal
\* (which reads the model only).  tm is the timer bookkeeping before the call.
\* Both `default: throw` of determineGoalInfo switch on the type alone, so the
\* goals are projected for the throw only when the type is not a declared one.
renderGoals(a, tp, tm, g) ==
    LET r == updateScrollerAnimation(a, tp, g)
        kept == IF r.replaced THEN [cur |-> 0, old |-> tm.old + tm.cur] ELSE tm
    IN  [animation |-> r.animation,
         timers |-> IF r.armed THEN [kept EXCEPT !.cur = @ + 1] ELSE kept,
         threw |-> (\/ r.threw
                    \/ /\ r.animation.type \notin AnimationTypes
                       /\ \E i \in 0..(Len(g) - 1) :
                             determineGoalInfo(i, r.animation, Len(g)).threw)]

\* The body of the try block of the function createStateLoader returns.
tryFetch(resp) ==
    IF ~resp.reachable THEN [value |-> null, threw |-> TRUE]
    ELSE IF ~resp.ok THEN [value |-> null, threw |-> FALSE]
    ELSE IF ~resp.json THEN [value |-> null, threw |-> TRUE]
    ELSE IF \/ resp.body = "falsy"
            \/ resp.body = "primitive"
            \/ resp.body = "array"
            \/ ~resp.hasTotal
         THEN [value |-> null, threw |-> FALSE]
    ELSE IF ~resp.totalIsNumber THEN [value |-> null, threw |-> FALSE]
    ELSE [value |-> resp.total, threw |-> FALSE]

Rethrow(r) == r

\* `catch (err) { console.error(...); return null; }`
catchFetchError(r) == IF r.threw THEN [value |-> null, threw |-> FALSE] ELSE r

fetchState(resp) == catchFetchError(tryFetch(resp))

RecordOnlyHigher(tp, new) == IF new > tp THEN new ELSE tp

\* setTotalPoints(totalPoints): model.totalPoints = totalPoints
setTotalPoints(tp, new) == new

CounterTextKeepsDots(tp) == IF tp = null THEN "..." ELSE ToString(tp)

\* The text render() writes to counterValue; totals below 1000 have no separators.
CounterText(tp) == IF tp = null THEN "Error" ELSE ToString(tp)

KeyLoadsUpToOneMore(k) ==
    /\ k.present
    /\ k.length >= KeyMinLength
    /\ k.length <= KeyMaxLength + 1
    /\ k.importable

\* tryLoadKeyFromSearch() yields a key
KeyLoads(k) ==
    /\ k.present
    /\ k.length >= KeyMinLength
    /\ k.length <= KeyMaxLength
    /\ k.importable

Phase(a) == <<a.type, a.doneIndex>>

Recorded(a, b) ==
    IF recording /\ Phase(a) # Phase(b) THEN Append(trace, Phase(b)) ELSE trace

\* ------------------------------------------------------------------ Init
\* The module has run up to main()'s first await: ui was built with
\* totalPoints 0 and rendered once (no transition: the index is on target).
InitModel ==
    /\ totalPoints = 0
    /\ animation = renderGoals(initializeAnimation(goals, 0), 0, [cur |-> 0, old |-> 0], goals).animation
    /\ timers = renderGoals(initializeAnimation(goals, 0), 0, [cur |-> 0, old |-> 0], goals).timers
    /\ counterValue = "..."
    /\ mainPc = "start"
    /\ inflight = <<>>
    /\ thrown = FALSE
    /\ lastOp = "init"
    /\ lastResult = null
    /\ before = animation
    /\ trace = <<>>
    /\ lastResponse = NoResponse
    /\ dialog = NoDialog
    /\ clicked = ""
    /\ sortedBefore = <<>>

Init ==
    /\ goals \in Catalogs
    /\ held = null
    /\ recording = FALSE
    /\ key = PageKey
    /\ InitModel

\* --------------------------------------------------------------- actions
\* main() after createStateLoader() settles.
MainStart ==
    /\ mainPc = "start"
    /\   IF ~KeyLoads(key)
         THEN /\ mainPc' = "invalidKey"
              /\ counterValue' = "Invalid key"
              /\ UNCHANGED inflight
         ELSE IF ~key.decrypts
         THEN /\ mainPc' = "failed"
              /\ UNCHANGED <<counterValue, inflight>>
         ELSE /\ mainPc' = "firstFetch"
              /\ inflight' = Append(inflight, FALSE)
              /\ UNCHANGED counterValue
    /\ lastOp' = "main"
    /\ before' = animation
    /\ UNCHANGED <<dialog, clicked, sortedBefore, goals, totalPoints, animation, timers, thrown, lastResult, held, trace,
                   recording, key, lastResponse>>

\* setInterval(fetchAndUpdate, ...) fires: fetchAndUpdate runs up to `await fetchState()`.
IntervalFire ==
    /\ mainPc = "polling"
    /\ Len(inflight) < MaxInFlight
    /\ inflight' = Append(inflight, FALSE)
    /\ lastOp' = "interval"
    /\ before' = animation
    /\ UNCHANGED <<dialog, clicked, sortedBefore, goals, totalPoints, animation, timers, counterValue, mainPc,
                   thrown, lastResult, held, trace, recording, key, lastResponse>>

RemoveAt(s, i) == [k \in 1..(Len(s) - 1) |-> IF k < i THEN s[k] ELSE s[k + 1]]

\* fetchState() of the i-th outstanding poll settles, having met resp:
\* ui.setTotalPoints(total); ui.render().  Were fetchState() to reject,
\* fetchAndUpdate would reject before either call, and main() with it when
\* it awaits the first poll.
PollComplete(i, resp) ==
    /\ i \in 1..Len(inflight)
    /\ LET f == fetchState(resp)
           tp == setTotalPoints(totalPoints, f.value)
           r == renderGoals(animation, tp, timers, goals)
       IN  IF f.threw
           THEN /\ thrown' = TRUE
                /\ lastResult' = lastResult
                /\ UNCHANGED <<totalPoints, counterValue, animation, timers, trace>>
           ELSE /\ totalPoints' = tp
                /\ counterValue' = CounterText(tp)
                /\ animation' = r.animation
                /\ timers' = r.timers
                /\ thrown' = (thrown \/ r.threw)
                /\ trace' = Recorded(animation, r.animation)
                /\ lastResult' = f.value
    /\ lastResponse' = resp
    /\ inflight' = RemoveAt([k \in 1..Len(inflight) |-> IF k < i THEN TRUE ELSE inflight[k]], i)
    /\ mainPc' = IF mainPc # "firstFetch" THEN mainPc
                 ELSE IF fetchState(resp).threw THEN "failed" ELSE "polling"
    /\ lastOp' = "poll"
    /\ before' = animation
    /\ UNCHANGED <<dialog, clicked, sortedBefore, goals, held, recording, key>>

\* A poll completes with one of the results it can have, or with the held total.
Poll ==
    \E i \in 1..Len(inflight) :
        \E resp \in (IF held = null THEN CanonicalResponses(goals) ELSE {OkResponse(held)}) :
            PollComplete(i, resp)

\* A poll completes, having met any of the responses.
PollAny ==
    \E i \in 1..Len(inflight) :
        \E resp \in Responses(goals) : PollComplete(i, resp)

\* A poll of the worked example completes.
PollExample ==
    \E i \in 1..Len(inflight) :
        \E resp \in ExampleResponses : PollComplete(i, resp)

\* The setTimeout callback of updateScrollerAnimation:
\* animation.activeTimeout = undefined; renderGoals().
TimerFire ==
    \E target \in {"cur", "old"} :
        /\ timers[target] > 0
        /\ LET cleared == IF target = "cur"
                          THEN [animation EXCEPT !.activeTimeout = FALSE]
                          ELSE animation
               r == renderGoals(cleared, totalPoints, [timers EXCEPT ![target] = @ - 1], goals)
           IN  /\ animation' = r.animation
               /\ timers' = r.timers
               /\ thrown' = (thrown \/ r.threw)
               /\ trace' = Recorded(animation, r.animation)
        /\ lastOp' = "timer"
        /\ before' = animation
        /\ UNCHANGED <<dialog, clicked, sortedBefore, goals, totalPoints, counterValue, mainPc, inflight, lastResult, held,
                       recording, key, lastResponse>>

Next == MainStart \/ IntervalFire \/ Poll \/ TimerFire

Spec == Init /\ [][Next]_vars

\* Page loads with any key, polls meeting any response, on short catalogs.
InitEdge ==
    /\ goals \in {Ladder(n) : n \in 1..EdgeGoals}
    /\ held = null
    /\ recording = FALSE
    /\ key \in KeyInputs
    /\ InitModel

NextEdge == MainStart \/ IntervalFire \/ PollAny \/ TimerFire

SpecEdge == InitEdge /\ [][NextEdge]_vars

\* From here on the bucket's total stays v: every poll that completes delivers it.
Hold ==
    /\ held = null
    /\ mainPc \in {"firstFetch", "polling"}
    /\ \E v \in TotalsFor(goals) : held' = v
    /\ UNCHANGED <<dialog, clicked, sortedBefore, goals, totalPoints, animation, timers, counterValue, mainPc, inflight,
                   thrown, lastOp, lastResult, before, trace, recording, key, lastResponse>>

\* Runs in which polls and timer expiries keep occurring: setInterval keeps
\* calling fetchAndUpdate, every fetch settles, every pending timeout expires.
InitLive ==
    /\ goals \in {Ladder(n) : n \in 1..LiveGoals}
    /\ held = null
    /\ recording = FALSE
    /\ key = PageKey
    /\ InitModel

NextLive == MainStart \/ IntervalFire \/ Poll \/ TimerFire \/ Hold

SpecLive ==
    /\ InitLive
    /\ [][NextLive]_vars
    /\ WF_vars(IntervalFire)
    /\ WF_vars(Poll)
    /\ WF_vars(TimerFire)

\* The worked example: catalog [100, 200, 300].
InitExample ==
    /\ goals = ExampleCatalog
    /\ held = null
    /\ recording = FALSE
    /\ key = PageKey
    /\ InitModel

NextExample == MainStart \/ IntervalFire \/ PollExample \/ TimerFire

SpecExample == InitExample /\ [][NextExample]_vars

\* ------------------------------------------- runs with Progress held fixed
IsPrefix(s, t) == Len(s) <= Len(t) /\ \A k \in 1..Len(s) : s[k] = t[k]

UpCycle(d) ==
    << <<"upwards:begin", d>>, <<"upwards:moving", d>>, <<"upwards:end", d>>, <<"static", d>> >>

RECURSIVE UpRun(_, _)
UpRun(from, to) == IF from > to THEN <<>> ELSE UpCycle(from) \o UpRun(from + 1, to)

DownCycle(d) ==
    << <<"downwards:begin", d>>, <<"downwards:moving", d>>,
       <<"downwards:end", d - 1>>, <<"static", d - 1>> >>

\* The page as loaded, with a catalog of at least 5 goals; every poll will
\* deliver the same total, one whose done index is 4.
InitUp ==
    /\ goals \in {g \in Catalogs : Len(g) >= 5}
    /\ held \in {v \in PointValues : calculateDoneIndex(goals, v) = 4}
    /\ recording = TRUE
    /\ key = PageKey
    /\ InitModel

SpecUp == InitUp /\ [][Next]_vars

\* The widget at rest on index 3 (a total with done index 3 has been polled
\* and all animations have played); every later poll delivers the same
\* total, one whose done index is 1.
InitDown ==
    /\ goals \in {g \in Catalogs : Len(g) >= 4}
    /\ totalPoints \in {v \in PointValues : calculateDoneIndex(goals, v) = 3}
    /\ held \in {v \in PointValues : calculateDoneIndex(goals, v) = 1}
    /\ animation = NewAnimation("static", 3)
    /\ timers = [cur |-> 0, old |-> 0]
    /\ counterValue = CounterText(totalPoints)
    /\ mainPc = "polling"
    /\ inflight = <<>>
    /\ thrown = FALSE
    /\ lastOp = "poll"
    /\ lastResult = totalPoints
    /\ before = animation
    /\ trace = <<>>
    /\ recording = TRUE
    /\ key = PageKey
    /\ lastResponse = OkResponse(totalPoints)
    /\ dialog = NoDialog
    /\ clicked = ""
    /\ sortedBefore = <<>>

NextDown == IntervalFire \/ Poll \/ TimerFire

SpecDown == InitDown /\ [][NextDown]_vars

\* ------------------------------------------------------------- dashboard
keepSortDirection(dir) == dir

flipSortDirection(dir) ==
    CASE dir = "ASC" -> "DESC"
      [] dir = "DESC" -> "ASC"

defaultDialogSorting(type) ==
    CASE type = "allSupports" ->
            <<[name |-> "points", direction |-> "DESC"],
              [name |-> "supporter", direction |-> "ASC"]>>
      [] type \in {"keychains", "namesOnArtwork", "postcards", "wheelSpins"} ->
            <<[name |-> "supporter", direction |-> "DESC"]>>

\* dialog.sortBy.findIndex(x => x.name === className), counted from 0
findIndex(sortBy, className) ==
    LET hits == {k \in 1..Len(sortBy) : sortBy[k].name = className}
    IN  IF hits = {} THEN -1
        ELSE (CHOOSE k \in hits : \A h \in hits : k <= h) - 1

\* dialog.sortBy after tableClickHandler for a header cell of class className.
tableClickHandler(sortBy, className) ==
    LET index == findIndex(sortBy, className)
        spliced == IF index > -1 THEN RemoveAt(sortBy, index + 1) ELSE sortBy
    IN  IF className = "rownum" THEN sortBy
        ELSE IF index = 0
        THEN [sortBy EXCEPT ![1].direction = flipSortDirection(@)]
        ELSE <<[name |-> className, direction |-> "DESC"]>> \o spliced

\* openDialogClicked(type)
OpenDialog ==
    /\ \E type \in DialogTypes :
           dialog' = [type |-> type, sortBy |-> defaultDialogSorting(type)]
    /\ clicked' = ""
    /\ sortedBefore' = <<>>
    /\ UNCHANGED overlayVars

\* handleModalClose for the open dialog's element
CloseDialog ==
    /\ dialog # NoDialog
    /\ dialog' = NoDialog
    /\ clicked' = ""
    /\ sortedBefore' = <<>>
    /\ UNCHANGED overlayVars

\* A click on a header cell; without a dialog the handler returns at once.
TableClick ==
    /\ \E className \in ColumnNames :
           /\ clicked' = className
           /\ dialog' = IF dialog = NoDialog THEN dialog
                         ELSE [dialog EXCEPT !.sortBy = tableClickHandler(@, className)]
    /\ sortedBefore' = dialog.sortBy
    /\ UNCHANGED overlayVars

InitDashboard ==
    /\ goals = Ladder(1)
    /\ held = null
    /\ recording = FALSE
    /\ key = PageKey
    /\ InitModel

NextDashboard == OpenDialog \/ CloseDialog \/ TableClick

SpecDashboard == InitDashboard /\ [][NextDashboard]_vars

\* ----------------------------------------------------------------- claims

\* C1: from Static(null), unarmed, with every poll delivering a total whose
\* done index is 4, the phases entered are exactly UpwardBegin(0),
\* UpwardMoving(0), UpwardEnd(0), Static(0), UpwardBegin(1), ..., Static(4), in
\* that order: one index per begin/moving/end cycle, none skipped, and
\* nothing after Static(4).
C1_UpwardCatchUp ==
    /\ IsPrefix(trace, UpRun(0, 4))
    /\ Phase(animation) = (IF trace = <<>> THEN <<"static", null>> ELSE trace[Len(trace)])

C1_Witness ==
    /\ trace = UpRun(0, 4)
    /\ animation = NewAnimation("static", 4)
    /\ timers.cur = 0

\* C2: from Static(3), unarmed, with every poll delivering a total whose done
\* index is 1, the phases entered are DownwardBegin(3), DownwardMoving(3),
\* DownwardEnd(2), Static(2), DownwardBegin(2), DownwardMoving(2),
\* DownwardEnd(1), Static(1), and the machine then rests in Static(1).
C2_DownwardRegression ==
    /\ IsPrefix(trace, DownCycle(3) \o DownCycle(2))
    /\ Phase(animation) = (IF trace = <<>> THEN <<"static", 3>> ELSE trace[Len(trace)])
    /\ Len(trace) = 8 => (~animation.activeTimeout /\ timers = [cur |-> 0, old |-> 0])

C2_Witness ==
    /\ trace = DownCycle(3) \o DownCycle(2)
    /\ animation = NewAnimation("static", 1)
    /\ lastOp = "poll"

\* C3: a poll handler that runs updateScrollerAnimation while the phase timer
\* is armed changes neither the phase tag, nor the doneIndex, nor the armed
\* flag, nor the set of pending timers, whatever total it delivered.
C3_AdvanceWhileArmedIsNoOp ==
    [][(lastOp' = "poll" /\ animation.activeTimeout)
         => (animation' = animation /\ timers' = timers)]_vars

\* UpwardBegin(0) cannot be entered while the target is null, so the poll that
\* set this total found UpwardBegin(0) armed.
C3_Witness ==
    /\ lastOp = "poll"
    /\ before.activeTimeout
    /\ before.type = "upwards:begin"
    /\ totalPoints # null
    /\ calculateDoneIndex(goals, totalPoints) # before.doneIndex
    /\ animation = before

\* C4: while totalPoints is null no handler (failed poll, timer expiry)
\* changes the phase tag or the doneIndex, in Static and in mid-animation
\* alike, and nothing is thrown.
C4_FailedFetchLeavesPhase ==
    [][totalPoints' = null
         => (Phase(animation') = Phase(animation) /\ ~thrown')]_vars

C4_Witness ==
    /\ lastOp = "timer"
    /\ totalPoints = null
    /\ animation.type = "upwards:moving"
    /\ ~animation.activeTimeout
    /\ before.activeTimeout

\* C5: for every catalog (strictly increasing thresholds) and every total,
\* calculateDoneIndex is the greatest index whose threshold is <= the total
\* (a total equal to a threshold counts as reached), and null when no
\* threshold is <= the total.
ReachedIndexes(g, points) == {i \in 0..(Len(g) - 1) : g[i + 1] <= points}

C5_GreatestReachedIndex ==
    \A p \in PointValues :
        LET reached == ReachedIndexes(goals, p)
        IN  IF reached = {}
            THEN calculateDoneIndex(goals, p) = null
            ELSE /\ calculateDoneIndex(goals, p) \in reached
                 /\ \A i \in reached : i <= calculateDoneIndex(goals, p)

\* A poll delivered a total equal to the threshold of a goal that is not the
\* first, and the machine has settled on that goal's index.
C5_Witness ==
    /\ lastOp = "poll"
    /\ totalPoints # null
    /\ \E i \in 1..(Len(goals) - 1) :
          /\ goals[i + 1] = totalPoints
          /\ calculateDoneIndex(goals, totalPoints) = i
          /\ animation = NewAnimation("static", i)

\* C6: calculateDoneIndex is monotonic in the total: p <= q implies
\* calculateDoneIndex(p) <= calculateDoneIndex(q), null counted as -1.
C6_DoneIndexMonotonic ==
    \A p, q \in PointValues :
        p <= q => OrElse(calculateDoneIndex(goals, p), -1)
                    <= OrElse(calculateDoneIndex(goals, q), -1)

\* A poll raised the target at least two goals above the index at rest.
C6_Witness ==
    /\ lastOp = "poll"
    /\ before.type = "static"
    /\ animation.type = "upwards:begin"
    /\ \E p \in PointValues :
          /\ p < totalPoints
          /\ calculateDoneIndex(goals, p) = animation.doneIndex
          /\ calculateDoneIndex(goals, totalPoints) > animation.doneIndex

\* C7: a poll result arriving while the phase timer is armed is stored in
\* totalPoints and changes neither the animation nor the armed flag; when the
\* timer then expires, the advance of its callback takes its target from the
\* result of the most recent poll: a Static phase stays, starts down or starts
\* up by it, and an End phase settles to Static armed or unarmed by it.
TargetOfLastResult == calculateDoneIndex(goals, lastResult)

C7_BufferedWhileArmed ==
    [][/\ (lastOp' = "poll" /\ animation.activeTimeout)
            => (totalPoints' = lastResult' /\ animation' = animation)
       /\ (lastOp' = "timer" /\ animation.activeTimeout /\ lastResult # null
             /\ animation.type = "static")
            => Phase(animation') =
                 (IF TargetOfLastResult = animation.doneIndex
                     THEN <<"static", animation.doneIndex>>
                  ELSE IF OrElse(animation.doneIndex, -1) > OrElse(TargetOfLastResult, -1)
                     THEN <<"downwards:begin", animation.doneIndex>>
                  ELSE <<"upwards:begin", OrElse(animation.doneIndex, -1) + 1>>)
       /\ (lastOp' = "timer" /\ animation.activeTimeout /\ lastResult # null
             /\ animation.type \in {"upwards:end", "downwards:end"})
            => /\ Phase(animation') = <<"static", animation.doneIndex>>
               /\ animation'.activeTimeout = (TargetOfLastResult # animation.doneIndex)
      ]_vars

\* Static(d) was armed after an upward cycle because the target was above d;
\* totals polled while it was armed moved the target below d, and the timer's
\* advance started the downward animation.
C7_Witness ==
    /\ lastOp = "timer"
    /\ before.activeTimeout
    /\ before.type = "static"
    /\ animation.type = "downwards:begin"
    /\ totalPoints = lastResult

\* C8 as stated: after every step that computes a new phase the timer is
\* armed iff the new phase is not Static.
C8_ArmedIffNotStatic ==
    [][Phase(animation') # Phase(animation)
         => (animation'.activeTimeout <=> animation'.type # "static")]_vars

\* C8 amended: after every step that computes a new phase the timer is armed
\* iff the new phase is not Static, or it is a Static phase whose doneIndex
\* differs from the target computed in that step; an armed phase has exactly
\* one pending timer and an unarmed one none.
C8_ArmedIffWorkLeft ==
    [][Phase(animation') # Phase(animation)
         => /\ animation'.activeTimeout <=>
                 (\/ animation'.type # "static"
                  \/ animation'.doneIndex # calculateDoneIndex(goals, totalPoints'))
            /\ timers' = [cur |-> IF animation'.activeTimeout THEN 1 ELSE 0, old |-> 0]
      ]_vars

C8_Witness ==
    /\ lastOp = "timer"
    /\ before.type = "upwards:end"
    /\ animation.type = "static"
    /\ animation.activeTimeout
    /\ timers.cur = 1

\* What render() is handed in the step just taken: the poll handler calls it
\* after setTotalPoints, the timer callback after clearing activeTimeout.
RenderInput == IF lastOp' = "timer" THEN [animation EXCEPT !.activeTimeout = FALSE] ELSE animation

\* C9 as stated: a call of render / renderGoals leaves the phase tag, the
\* doneIndex and the armed flag as it found them.
C9_RenderOnlyReads ==
    [][lastOp' \in {"poll", "timer"} => animation' = RenderInput]_vars

\* C9 amended: render / renderGoals never writes totalPoints, and it changes
\* the phase tag, the doneIndex and the armed flag only through the one
\* updateScrollerAnimation call it starts with: they are left as found when
\* the timer is armed, when totalPoints is null, and when the phase is Static
\* on its target.
C9_RenderChangesOnlyByAdvance ==
    [][lastOp' \in {"poll", "timer"}
         => /\ totalPoints' = (IF lastOp' = "poll" THEN lastResult' ELSE totalPoints)
            /\ (\/ RenderInput.activeTimeout
                \/ totalPoints' = null
                \/ /\ RenderInput.type = "static"
                   /\ RenderInput.doneIndex = calculateDoneIndex(goals, totalPoints'))
                 => animation' = RenderInput
      ]_vars

\* render ran in a poll handler, Static and on target, and left the model alone.
C9_Witness ==
    /\ lastOp = "poll"
    /\ totalPoints # null
    /\ before = NewAnimation("static", calculateDoneIndex(goals, totalPoints))
    /\ before.doneIndex # null
    /\ animation = before

\* C10: render is idempotent on the model: in every state a handler leaves
\* behind (each ends with a render), one more render changes neither the
\* animation (phase tag, doneIndex, armed flag) nor the pending timers, and
\* nothing is thrown; totalPoints is not written by render at all.
C10_RenderIdempotent ==
    LET again == renderGoals(animation, totalPoints, timers, goals)
    IN  /\ again.animation = animation
        /\ again.timers = timers
        /\ ~again.threw

\* The render of a poll handler started an animation; a second one must not
\* push it on to the moving phase.
C10_Witness ==
    /\ lastOp = "poll"
    /\ before.type = "static"
    /\ animation.type = "upwards:begin"
    /\ animation.activeTimeout

\* C11: in every reachable state the phase tag is one of the seven tags, the
\* doneIndex is null or an index of the catalog, and neither the advance
\* step nor the slot projector has taken its default (throwing) branch.
C11_PhaseWellFormed ==
    /\ animation.type \in AnimationTypes
    /\ animation.doneIndex = null \/ animation.doneIndex \in 0..(Len(goals) - 1)
    /\ ~thrown

C11_Witness ==
    /\ Len(goals) = MaxGoals
    /\ animation.type = "upwards:end"
    /\ animation.doneIndex = Len(goals) - 1

\* C12: once every poll delivers the same numeric total v, and polls and
\* timer expiries keep occurring, the animation reaches "static" at
\* calculateDoneIndex(v) with no timer armed and stays there forever.
C12_CatchUpLiveness ==
    (held # null) ~>
        [](/\ animation = NewAnimation("static", calculateDoneIndex(goals, held))
           /\ timers.cur = 0)

C12_Witness ==
    /\ held # null
    /\ lastOp = "timer"
    /\ before.type \in {"upwards:end", "downwards:end"}
    /\ animation = NewAnimation("static", calculateDoneIndex(goals, held))
    /\ timers.cur = 0

\* C13 (as stated): for the catalog [100, 200, 300] and a total of 250,
\* calculateDoneIndex is 1, and in "static" at doneIndex 1 the slot of goal
\* index 2 is upcoming and the slot of goal index 1 is active.
C13_ExampleAsStated ==
    /\ calculateDoneIndex(ExampleCatalog, 250) = 1
    /\ (goals = ExampleCatalog /\ totalPoints = 250
            /\ animation.type = "static" /\ animation.doneIndex = 1)
       => /\ determineGoalInfo(2, animation, Len(goals)).visible
          /\ determineGoalInfo(2, animation, Len(goals)).state = "upcoming"
          /\ determineGoalInfo(1, animation, Len(goals)).visible
          /\ determineGoalInfo(1, animation, Len(goals)).state = "active"

\* C13 (amended): for the catalog [100, 200, 300] and a total of 250,
\* calculateDoneIndex is 1, and in "static" at doneIndex 1 the slot of goal
\* index 2 is active and the slots of goal indexes 1 and 0 are completed.
C13_ExampleTwoRemaining ==
    /\ calculateDoneIndex(ExampleCatalog, 250) = 1
    /\ (goals = ExampleCatalog /\ totalPoints = 250
            /\ animation.type = "static" /\ animation.doneIndex = 1)
       => /\ determineGoalInfo(2, animation, Len(goals)) = Shown("active", 2, "clear")
          /\ determineGoalInfo(1, animation, Len(goals)) = Shown("completed", 1, "clear")
          /\ determineGoalInfo(0, animation, Len(goals)) = Shown("completed", 0, "clear")

C13_Witness ==
    /\ goals = ExampleCatalog
    /\ totalPoints = 250
    /\ animation = NewAnimation("static", 1)
    /\ lastOp = "timer"

\* goals.length - (doneIndex ?? 0) of determineGoalInfo
Remaining(a, n) == n - OrElse(a.doneIndex, 0)

\* C14: whenever remaining = N - (doneIndex ?? 0) is 1, every slot the
\* projector makes visible is completed, whichever of the seven phase tags
\* the animation carries.
C14_LastGoalAllCompleted ==
    \A type \in AnimationTypes :
        LET a == [animation EXCEPT !.type = type]
        IN  Remaining(a, Len(goals)) = 1
            => \A i \in VisibleGoals(a, Len(goals)) :
                   determineGoalInfo(i, a, Len(goals)).state = "completed"

C14_Witness ==
    /\ Remaining(animation, Len(goals)) = 1
    /\ animation.type = "upwards:end"
    /\ Cardinality(VisibleGoals(animation, Len(goals))) = 3
    /\ \A i \in VisibleGoals(animation, Len(goals)) :
           determineGoalInfo(i, animation, Len(goals)).state = "completed"

\* C15: in every reachable state the projector makes at most 3 goals visible
\* when the phase is "static" and at most 4 in any other phase.
C15_VisibleSlotsBounded ==
    Cardinality(VisibleGoals(animation, Len(goals)))
        <= (IF animation.type = "static" THEN 3 ELSE 4)

C15_Witness ==
    /\ animation.type = "downwards:moving"
    /\ Cardinality(VisibleGoals(animation, Len(goals))) = 4
    /\ lastOp = "timer"
    /\ before.type = "downwards:begin"
    /\ Cardinality(VisibleGoals(before, Len(goals))) = 4

\* The key parameter is missing, too short, too long, or cannot be imported.
BadKey ==
    \/ ~key.present
    \/ key.length < KeyMinLength
    \/ key.length > KeyMaxLength
    \/ ~key.importable

\* C16: with a key that is missing, shorter than 43 or longer than 44
\* characters, or not importable, main() shows "Invalid key" and nothing else
\* ever runs: no poll is issued or scheduled, the total is never updated,
\* and the animation keeps its initial "static" value with no timer.
C16_InvalidKeyStops ==
    BadKey =>
        /\ mainPc \in {"start", "invalidKey"}
        /\ mainPc = "invalidKey" => counterValue = "Invalid key"
        /\ lastOp \in {"init", "main"}
        /\ inflight = <<>>
        /\ totalPoints = 0
        /\ lastResponse = NoResponse
        /\ animation = initializeAnimation(goals, 0)
        /\ timers = [cur |-> 0, old |-> 0]

C16_Witness ==
    /\ key.present
    /\ key.importable
    /\ key.length = KeyMaxLength + 1
    /\ mainPc = "invalidKey"
    /\ counterValue = "Invalid key"

\* The fetch met a reachable server, an OK status, a JSON body that is a
\* non-array object, and a `total` member of type number.
NumericTotal(resp) ==
    /\ resp.reachable
    /\ resp.ok
    /\ resp.json
    /\ resp.body = "object"
    /\ resp.hasTotal
    /\ resp.totalIsNumber

\* C17: the fetch yields null and raises nothing on a network failure, a
\* non-OK status, a non-JSON body, a body that is not a non-array object, a
\* missing total and a non-numeric total; it yields the number exactly when
\* total is numeric.  Stated of the function and of every completed poll.
C17_FetchYieldsNullOnFailure ==
    /\ \A resp \in Responses(goals) :
           fetchState(resp) =
               [value |-> IF NumericTotal(resp) THEN resp.total ELSE null, threw |-> FALSE]
    /\ lastResponse # NoResponse =>
           /\ ~thrown
           /\ lastResult = IF NumericTotal(lastResponse) THEN lastResponse.total ELSE null
           /\ totalPoints = lastResult

C17_Witness ==
    /\ lastOp = "poll"
    /\ lastResponse = [OkResponse(MaxThreshold) EXCEPT !.json = FALSE]
    /\ lastResult = null
    /\ before.type # "static"
    /\ ~thrown

\* One row of the phase table: the phase after <<type, d>> when the target is t.
TableStep(phase, t) ==
    LET type == phase[1]
        d == phase[2]
    IN  CASE type = "static" ->
                IF d = t THEN <<"static", d>>
                ELSE IF OrElse(d, -1) > OrElse(t, -1) THEN <<"downwards:begin", d>>
                ELSE <<"upwards:begin", OrElse(d, -1) + 1>>
          [] type = "upwards:begin" -> <<"upwards:moving", d>>
          [] type = "upwards:moving" -> <<"upwards:end", d>>
          [] type = "upwards:end" -> <<"static", d>>
          [] type = "downwards:begin" -> <<"downwards:moving", d>>
          [] type = "downwards:moving" ->
                <<"downwards:end", IF d = null \/ d = 0 THEN null ELSE d - 1>>
          [] type = "downwards:end" -> <<"static", d>>

\* C18: a poll that fails shows the error sentinel and leaves the animation
\* and its timers untouched; a successful poll that finds the sentinel shows
\* the numeric total and, when no timer is armed, moves the phase by exactly
\* one row of the phase table (and not at all when one is armed).
C18_FailedPollThenRecovery ==
    [][(lastOp' = "poll" /\ Len(inflight') < Len(inflight)) =>
          /\ ~NumericTotal(lastResponse') =>
                 /\ counterValue' = "Error"
                 /\ animation' = animation
                 /\ timers' = timers
          /\ (NumericTotal(lastResponse') /\ counterValue = "Error") =>
                 /\ counterValue' = ToString(lastResponse'.total)
                 /\ IF animation.activeTimeout
                    THEN animation' = animation
                    ELSE Phase(animation') =
                            TableStep(Phase(animation),
                                      calculateDoneIndex(goals, lastResponse'.total))]_vars

C18_Witness ==
    /\ lastOp = "poll"
    /\ NumericTotal(lastResponse)
    /\ before.type = "downwards:moving"
    /\ ~before.activeTimeout
    /\ animation.type = "downwards:end"
    /\ counterValue = ToString(lastResponse.total)

\* The step just taken ran the advance on a "static" animation with no timer
\* armed: a poll handler that found it so, or the callback of its own timer.
AdvancedFromUnarmedStatic ==
    /\ lastOp' \in {"poll", "timer"}
    /\ animation.type = "static"
    /\ \/ ~animation.activeTimeout
       \/ lastOp' = "timer" /\ timers.old = 0

\* C19: from "static" at d with no timer armed and a numeric total whose
\* target is t: if t = d the animation stays "static" at d, unarmed; if d > t
\* the next phase is "downwards:begin" at d; otherwise it is "upwards:begin"
\* at d + 1 (null counted as -1), however far t lies above d.
C19_StaticDecision ==
    [][(AdvancedFromUnarmedStatic /\ totalPoints' # null) =>
          LET d == animation.doneIndex
              t == calculateDoneIndex(goals, totalPoints')
          IN  IF t = d
              THEN animation' = NewAnimation("static", d)
              ELSE IF OrElse(d, -1) > OrElse(t, -1)
              THEN Phase(animation') = <<"downwards:begin", d>>
              ELSE Phase(animation') = <<"upwards:begin", OrElse(d, -1) + 1>>]_vars

C19_Witness ==
    /\ lastOp = "poll"
    /\ before = NewAnimation("static", 0)
    /\ totalPoints # null
    /\ calculateDoneIndex(goals, totalPoints) = 3
    /\ Phase(animation) = <<"upwards:begin", 1>>

\* C20: the doneIndex of the animation changes in exactly two transitions:
\* "static" to "upwards:begin" raises it by one (null counted as -1), and
\* "downwards:moving" to "downwards:end" lowers it by one, to null from 0;
\* every other step leaves it as it was, so it never moves by more than one.
C20_DoneIndexStepsByOne ==
    [][LET d == animation.doneIndex
           e == animation'.doneIndex
           up == animation.type = "static" /\ animation'.type = "upwards:begin"
           down == animation.type = "downwards:moving" /\ animation'.type = "downwards:end"
       IN  /\ up => OrElse(e, -1) = OrElse(d, -1) + 1
           /\ down => /\ d # null
                       /\ e = (IF d = 0 THEN null ELSE d - 1)
           /\ ~(up \/ down) => e = d
           /\ OrElse(e, -1) - OrElse(d, -1) \in {-1, 0, 1}]_vars

C20_Witness ==
    /\ lastOp = "timer"
    /\ before.type = "downwards:moving"
    /\ before.doneIndex = 0
    /\ animation.type = "downwards:end"
    /\ animation.doneIndex = null

\* The step just taken ran the switch of the advance on the animation it
\* found: a poll handler that found no timer armed, or the callback of the
\* animation's own timer, with a numeric total in either case.
AdvanceRan ==
    /\ lastOp' \in {"poll", "timer"}
    /\ totalPoints' # null
    /\ \/ ~animation.activeTimeout
       \/ lastOp' = "timer" /\ timers.old = 0

EndTypes == {"upwards:end", "downwards:end"}

BeginTypes == {"upwards:begin", "downwards:begin"}

\* C21 (first half, shared by both readings): one advance from an End phase
\* at d yields "static" at d and never a Begin phase, whatever the target.
NoAutoChaining ==
    (AdvanceRan /\ animation.type \in EndTypes)
        => Phase(animation') = <<"static", animation.doneIndex>>

\* C21 (as stated): one advance from an End phase at d yields "static" at d,
\* never a Begin phase; when d differs from the target at that instant, the
\* following tick enters a Begin phase.
C21_NextTickEntersBegin ==
    [][/\ NoAutoChaining
       /\ (lastOp' = "timer" /\ animation.type = "static" /\ animation.activeTimeout)
            => animation'.type \in BeginTypes]_vars

\* C21 (amended): one advance from an End phase at d yields "static" at d,
\* never a Begin phase, and arms the timer exactly when d differs from the
\* target at that instant; the tick of that timer applies the Static rule
\* to the target of its own instant: it enters the Begin phase the rule
\* chooses, or stays "static" at d, unarmed, when the target has become d
\* or the recorded total is null.
C21_NextTickAppliesStaticRule ==
    [][/\ NoAutoChaining
       /\ (AdvanceRan /\ animation.type \in EndTypes)
            => animation'.activeTimeout
                 = (animation.doneIndex # calculateDoneIndex(goals, totalPoints'))
       /\ (lastOp' = "timer" /\ animation.type = "static" /\ animation.activeTimeout)
            => IF totalPoints = null
               THEN animation' = NewAnimation("static", animation.doneIndex)
               ELSE /\ Phase(animation') =
                          TableStep(Phase(animation), calculateDoneIndex(goals, totalPoints))
                    /\ animation'.type = "static" => ~animation'.activeTimeout]_vars

C21_Witness ==
    /\ lastOp = "timer"
    /\ before.type = "static"
    /\ before.activeTimeout
    /\ animation.type = "upwards:begin"
    /\ animation.doneIndex = before.doneIndex + 1

\* C22: animations never overlap or reverse mid-way.  Every change of phase
\* out of a non-"static" phase goes to its one successor in the cycle
\* (begin, moving, end, static; doneIndex kept, lowered by one on the way
\* into "downwards:end"), whatever total is recorded at that moment, and a
\* Begin phase is entered from "static" only.
C22_FixedCycleOrder ==
    [][Phase(animation') # Phase(animation) =>
          IF animation.type = "static"
          THEN animation'.type \in BeginTypes
          ELSE Phase(animation') = TableStep(Phase(animation), null)]_vars

\* An upward animation went on to its End phase although the recorded total
\* had meanwhile regressed below the index it started from.
C22_Witness ==
    /\ lastOp = "timer"
    /\ before.type = "upwards:moving"
    /\ animation.type = "upwards:end"
    /\ totalPoints # null
    /\ OrElse(calculateDoneIndex(goals, totalPoints), -1) < animation.doneIndex - 1

\* C23: a non-"static" phase cannot be cut short.  Each is entered with its
\* timer armed; it is left only in the callback of that timer or, the timer
\* having expired on a null total, in a later poll; a poll handler that
\* finds the timer armed leaves the animation and the timer as they are.
C23_PhaseNotCutShort ==
    [][/\ (Phase(animation') # Phase(animation) /\ animation'.type # "static")
            => (animation'.activeTimeout /\ timers' = [cur |-> 1, old |-> 0])
       /\ (Phase(animation') # Phase(animation) /\ animation.type # "static")
            => \/ lastOp' = "timer" /\ timers.cur = 1 /\ timers.old = 0
               \/ lastOp' = "poll" /\ ~animation.activeTimeout /\ timers.cur = 0
       /\ (lastOp' = "poll" /\ animation.type # "static" /\ animation.activeTimeout)
            => (animation' = animation /\ timers' = timers)]_vars

\* A poll brought a total of another target into a Begin phase whose timer
\* was still pending, and the phase stayed.
C23_Witness ==
    /\ lastOp = "poll"
    /\ before.type = "downwards:begin"
    /\ before.activeTimeout
    /\ totalPoints # null
    /\ OrElse(calculateDoneIndex(goals, totalPoints), -1) > before.doneIndex
    /\ animation = before
    /\ timers.cur = 1

\* At most one timeout is pending, and it is the one whose handle the
\* current animation object carries in activeTimeout.
OneTimerOfCurrentPhase ==
    /\ timers.old = 0
    /\ timers.cur = (IF animation.activeTimeout THEN 1 ELSE 0)

\* C24: at most one phase timer is outstanding at any time.  A poll handler
\* arms a timer only when none is pending; a timer callback runs for the
\* timer of the animation current at that moment, clears its flag, and the
\* flag is set again only by a timer armed in that same callback.
C24_SingleOutstandingTimer ==
    [][/\ OneTimerOfCurrentPhase
       /\ OneTimerOfCurrentPhase'
       /\ (lastOp' = "poll" /\ timers' # timers)
            => (timers = [cur |-> 0, old |-> 0] /\ timers' = [cur |-> 1, old |-> 0])
       /\ lastOp' = "timer"
            => /\ timers = [cur |-> 1, old |-> 0]
               /\ animation.activeTimeout
               /\ Phase(animation') = Phase(animation) => ~animation'.activeTimeout]_vars

\* Two polls were outstanding while a timer was pending, one of them has
\* completed with a new target, and still exactly one timer is pending.
C24_Witness ==
    /\ lastOp = "poll"
    /\ Len(inflight) >= 1
    /\ before.activeTimeout
    /\ before.type = "upwards:end"
    /\ totalPoints # null
    /\ calculateDoneIndex(goals, totalPoints) # before.doneIndex
    /\ timers = [cur |-> 1, old |-> 0]

\* The visible goals whose slot has lifecycle state st.
GoalsInState(a, n, st) ==
    {i \in VisibleGoals(a, n) : determineGoalInfo(i, a, n).state = st}

\* C25 (as stated): whenever remaining is at least 4, the visible slots hold
\* exactly one completed, one active and one upcoming slot in "static", and
\* those three plus at most one more slot in any other phase.
C25_OneOfEachState ==
    LET n == Len(goals)
        count(st) == Cardinality(GoalsInState(animation, n, st))
    IN  Remaining(animation, n) >= 4 =>
            IF animation.type = "static"
            THEN count("completed") = 1 /\ count("active") = 1 /\ count("upcoming") = 1
            ELSE /\ count("completed") >= 1 /\ count("active") >= 1 /\ count("upcoming") >= 1
                 /\ Cardinality(VisibleGoals(animation, n)) <= 4

\* C25 (amended): whenever remaining is at least 4 and doneIndex is a goal d,
\* "static" shows exactly goal d completed, goal d + 1 active and goal d + 2
\* upcoming, and every other phase shows those three plus goal d - 1,
\* completed, when there is one; while doneIndex is null ("static" or
\* "downwards:end") goal 0 is active, goals 1 and 2 are upcoming, and no
\* slot is completed.
C25_SteadyStateSlots ==
    LET n == Len(goals)
        d == animation.doneIndex
        in(st) == GoalsInState(animation, n, st)
    IN  Remaining(animation, n) >= 4 =>
            IF d = null
            THEN /\ animation.type \in {"static", "downwards:end"}
                 /\ in("completed") = {}
                 /\ in("active") = {0}
                 /\ in("upcoming") = {1, 2}
            ELSE /\ in("completed") =
                        (IF animation.type = "static" THEN {d} ELSE {d - 1, d} \cap (0..d))
                 /\ in("active") = {d + 1}
                 /\ in("upcoming") = {d + 2}

C25_Witness ==
    /\ Remaining(animation, Len(goals)) >= 4
    /\ animation.type = "downwards:moving"
    /\ animation.doneIndex = 1
    /\ GoalsInState(animation, Len(goals), "completed") = {0, 1}
    /\ GoalsInState(animation, Len(goals), "active") = {2}
    /\ GoalsInState(animation, Len(goals), "upcoming") = {3}

\* C26: in every reachable state each visible slot's lifecycle state agrees
\* with the doneIndex d of the animation (null counted as -1): completed
\* for goals up to d, active for goal d + 1, upcoming for the goals after it.
C26_StateAgreesWithDoneIndex ==
    LET n == Len(goals)
        d == OrElse(animation.doneIndex, -1)
    IN  \A i \in VisibleGoals(animation, n) :
            determineGoalInfo(i, animation, n).state =
                (IF i <= d THEN "completed" ELSE IF i = d + 1 THEN "active" ELSE "upcoming")

\* `picker` of determineGoalInfo for the goal at index i.
Picker(i, a, n) ==
    (i - OrElse(a.doneIndex, 0))
        + (IF Remaining(a, n) <= 3 THEN 3 - Remaining(a, n) ELSE 0)

\* The visible goals in the edge (covered) slot, and in the other slots.
CoveredGoals(a, n) == {i \in VisibleGoals(a, n) : Picker(i, a, n) = -1}

OtherGoals(a, n) == VisibleGoals(a, n) \ CoveredGoals(a, n)

TagOf(i, a, n) == determineGoalInfo(i, a, n).animation

\* Every goal of the set G carries the transition tag `tag`.
AllTagged(G, tag) == \A i \in G : TagOf(i, animation, Len(goals)) = tag

\* C27 (as stated): in "upwards:begin" and in "downwards:begin" the edge
\* slot is tagged no-box-shadow and every other visible slot has no tag.
C27_BeginEdgeNoBoxShadow ==
    animation.type \in BeginTypes =>
        /\ AllTagged(CoveredGoals(animation, Len(goals)), "no-box-shadow")
        /\ AllTagged(OtherGoals(animation, Len(goals)), "none")

\* C27 (amended): in "upwards:begin" no visible slot has a tag, the edge slot
\* included; in "downwards:begin" the edge slot is tagged no-box-shadow and
\* every other visible slot is tagged down when doneIndex >= 1 and
\* remaining > 2, and has no tag otherwise (when there is no edge slot).
C27_BeginTags ==
    LET n == Len(goals)
        scrolls == animation.doneIndex >= 1 /\ Remaining(animation, n) > 2
    IN  /\ animation.type = "upwards:begin" => AllTagged(VisibleGoals(animation, n), "none")
        /\ animation.type = "downwards:begin" =>
               /\ AllTagged(CoveredGoals(animation, n), "no-box-shadow")
               /\ AllTagged(OtherGoals(animation, n), IF scrolls THEN "down" ELSE "none")
               /\ (CoveredGoals(animation, n) # {}) = scrolls

C27_Witness ==
    /\ animation.type = "downwards:begin"
    /\ CoveredGoals(animation, Len(goals)) = {animation.doneIndex - 1}
    /\ Cardinality(OtherGoals(animation, Len(goals))) = 3
    /\ AllTagged(OtherGoals(animation, Len(goals)), "down")

\* No slot is tagged with a direction: too few goals remain to scroll, or
\* the doneIndex of the phase is 0.
Untagged(a, n) == Remaining(a, n) <= 2 \/ a.doneIndex = 0

\* C28: in "upwards:moving" every visible non-edge slot is tagged up and in
\* "downwards:moving" down, except that none is tagged when remaining <= 2
\* or doneIndex is 0; the edge slot has neither tag in a Moving phase.
C28_MovingTags ==
    LET n == Len(goals)
        others == OtherGoals(animation, n)
    IN  /\ animation.type = "upwards:moving" =>
               AllTagged(others, IF Untagged(animation, n) THEN "none" ELSE "up")
        /\ animation.type = "downwards:moving" =>
               AllTagged(others, IF Untagged(animation, n) THEN "none" ELSE "down")
        /\ animation.type \in {"upwards:moving", "downwards:moving"} =>
               \A i \in CoveredGoals(animation, n) : TagOf(i, animation, n) \notin {"up", "down"}

C28_Witness ==
    /\ animation.type = "upwards:moving"
    /\ ~Untagged(animation, Len(goals))
    /\ CoveredGoals(animation, Len(goals)) = {animation.doneIndex - 1}
    /\ TagOf(animation.doneIndex - 1, animation, Len(goals)) = "none"
    /\ Cardinality(OtherGoals(animation, Len(goals))) = 3
    /\ AllTagged(OtherGoals(animation, Len(goals)), "up")

\* The animation with its phase tag replaced by `type`.
Retagged(type) == [animation EXCEPT !.type = type]

\* C29 (as stated): in "upwards:end" and in "downwards:end" every visible
\* non-edge slot carries the tag the Moving phase of the same direction
\* gives it for the same doneIndex and remaining.
C29_EndRepeatsMoving ==
    LET n == Len(goals)
    IN  /\ animation.type = "upwards:end" =>
               \A i \in OtherGoals(animation, n) :
                   TagOf(i, animation, n) = TagOf(i, Retagged("upwards:moving"), n)
        /\ animation.type = "downwards:end" =>
               \A i \in OtherGoals(animation, n) :
                   TagOf(i, animation, n) = TagOf(i, Retagged("downwards:moving"), n)

\* C29 (amended): in "upwards:end" every visible non-edge slot carries the
\* tag "upwards:moving" gives it (up, or none when remaining <= 2 or
\* doneIndex is 0); in "downwards:end" it carries clear where
\* "downwards:moving" gives down (doneIndex >= 1 and remaining > 2) and no
\* tag where that gives none.
C29_EndTags ==
    LET n == Len(goals)
    IN  /\ animation.type = "upwards:end" =>
               /\ \A i \in OtherGoals(animation, n) :
                      TagOf(i, animation, n) = TagOf(i, Retagged("upwards:moving"), n)
               /\ AllTagged(OtherGoals(animation, n),
                            IF Untagged(animation, n) THEN "none" ELSE "up")
        /\ animation.type = "downwards:end" =>
               \A i \in OtherGoals(animation, n) :
                   TagOf(i, animation, n) =
                       (IF TagOf(i, Retagged("downwards:moving"), n) = "down"
                        THEN "clear" ELSE "none")
        /\ animation.type = "downwards:end" =>
               AllTagged(OtherGoals(animation, n),
                         IF animation.doneIndex >= 1 /\ Remaining(animation, n) > 2
                         THEN "clear" ELSE "none")

C29_Witness ==
    /\ animation.type = "downwards:end"
    /\ animation.doneIndex = 1
    /\ Remaining(animation, Len(goals)) = 4
    /\ AllTagged(OtherGoals(animation, Len(goals)), "clear")
    /\ TagOf(2, Retagged("downwards:moving"), Len(goals)) = "down"

\* C30: in "static" every visible slot is tagged clear, and so none carries
\* up, down or no-box-shadow, for every doneIndex the animation takes (null
\* included) and every catalog length.
C30_StaticAllClear ==
    LET n == Len(goals)
        a == Retagged("static")
    IN  /\ VisibleGoals(a, n) # {}
        /\ \A i \in VisibleGoals(a, n) : TagOf(i, a, n) = "clear"

C30_Witness ==
    /\ animation.type = "static"
    /\ animation.doneIndex = null
    /\ lastOp = "timer"
    /\ before.type = "downwards:end"
    /\ Cardinality(VisibleGoals(animation, Len(goals))) = 3
    /\ AllTagged(VisibleGoals(animation, Len(goals)), "clear")

\* `positionOffset` of determineGoalInfo.
PositionOffset(a, n) == IF a.doneIndex >= 1 /\ Remaining(a, n) >= 3 THEN 1 ELSE 0

PositionOf(i, a, n) == determineGoalInfo(i, a, n).position

\* C31 (as stated): in every phase, "static" included, the display position
\* of each visible slot is its picker plus 1 when doneIndex >= 1 and
\* remaining >= 3, and its picker otherwise.
C31_OffsetInEveryPhase ==
    LET n == Len(goals)
    IN  \A i \in VisibleGoals(animation, n) :
            PositionOf(i, animation, n) = Picker(i, animation, n) + PositionOffset(animation, n)

\* C31 (amended): in every phase but "static" the display position of each
\* visible slot is its picker plus 1 when doneIndex >= 1 and remaining >= 3,
\* and its picker otherwise; in "static" it is the picker itself, always.
C31_OffsetOutsideStatic ==
    LET n == Len(goals)
    IN  \A i \in VisibleGoals(animation, n) :
            PositionOf(i, animation, n) =
                Picker(i, animation, n)
                    + (IF animation.type = "static" THEN 0 ELSE PositionOffset(animation, n))

\* "upwards:end" at d >= 1 showed goal d in row 1; "static" shows it in row 0.
C31_Witness ==
    /\ animation.type = "static"
    /\ lastOp = "timer"
    /\ before.type = "upwards:end"
    /\ PositionOffset(animation, Len(goals)) = 1
    /\ PositionOf(animation.doneIndex, before, Len(goals)) = 1
    /\ PositionOf(animation.doneIndex, animation, Len(goals)) = 0

\* C32: in "static" with a catalog of N >= 3 goals exactly three goals are
\* visible, consecutive ones, at display positions 0, 1 and 2 in the order
\* of their indexes, for every doneIndex in {null, 0, ..., N - 1}.
C32_StaticShowsThreeRows ==
    LET n == Len(goals)
    IN  n >= 3 =>
            \A d \in {null} \cup 0..(n - 1) :
                LET a == NewAnimation("static", d)
                IN  \E k \in 0..(n - 3) :
                        /\ VisibleGoals(a, n) = {k, k + 1, k + 2}
                        /\ \A j \in 0..2 : PositionOf(k + j, a, n) = j

\* The last goal is reached: the window has shifted back by two goals.
C32_Witness ==
    /\ animation.type = "static"
    /\ Len(goals) = MaxGoals
    /\ animation.doneIndex = Len(goals) - 1
    /\ VisibleGoals(animation, Len(goals)) = (Len(goals) - 3)..(Len(goals) - 1)
    /\ PositionOf(Len(goals) - 1, animation, Len(goals)) = 2

\* C33: in every reachable state the display position is strictly
\* increasing in the goal index over the visible slots (so no two share
\* one), and each visible goal lies within two of doneIndex ?? 0.
C33_PositionsDistinctAndOrdered ==
    LET n == Len(goals)
        shown == VisibleGoals(animation, n)
    IN  /\ \A i, j \in shown :
               i < j => PositionOf(i, animation, n) < PositionOf(j, animation, n)
        /\ \A i \in shown : i - OrElse(animation.doneIndex, 0) \in -2..2

\* Four slots in rows 0 to 3 during an animation.
C33_Witness ==
    /\ animation.type = "upwards:begin"
    /\ Cardinality(VisibleGoals(animation, Len(goals))) = 4
    /\ {PositionOf(i, animation, Len(goals)) : i \in VisibleGoals(animation, Len(goals))} = 0..3

StateOf(i, a, n) == determineGoalInfo(i, a, n).state

\* C34: settling does not flicker.  In every reachable End phase, at null
\* with its own level set too, every goal visible both there and in the
\* "static" phase of the same doneIndex that follows has the same lifecycle
\* state in both.
C34_SettlingKeepsStates ==
    LET n == Len(goals)
        settled == Retagged("static")
    IN  animation.type \in EndTypes =>
            \A i \in VisibleGoals(animation, n) \cap VisibleGoals(settled, n) :
                StateOf(i, animation, n) = StateOf(i, settled, n)

\* "downwards:end" at null with four or more goals, where the special level
\* set applies: three goals stay visible, goal 0 active.
C34_Witness ==
    /\ animation.type = "downwards:end"
    /\ animation.doneIndex = null
    /\ Len(goals) >= 4
    /\ VisibleGoals(animation, Len(goals)) \cap VisibleGoals(Retagged("static"), Len(goals))
          = {0, 1, 2}
    /\ StateOf(0, animation, Len(goals)) = "active"
    /\ StateOf(0, Retagged("static"), Len(goals)) = "active"

\* The outstanding polls no later-issued poll has overtaken.
Fresh(polls) == {k \in 1..Len(polls) : ~polls[k]}

\* The step just taken completed a poll that a later-issued poll had
\* overtaken: the overtaken polls are the leading ones of `inflight`, and
\* completing one of them leaves the number of fresh ones as it was.
StalePollCompleted ==
    /\ lastOp' = "poll"
    /\ Len(inflight') < Len(inflight)
    /\ Cardinality(Fresh(inflight')) = Cardinality(Fresh(inflight))

\* C35: poll results are applied in the order their polls were issued: the
\* result of a poll that a later-issued poll has overtaken does not replace
\* the recorded total, and so starts no downward animation.
C35_StalePollResultDropped ==
    [][StalePollCompleted =>
          /\ totalPoints' = totalPoints
          /\ animation'.type = "downwards:begin" => animation.type = "downwards:begin"]_vars

\* C36: on the step from "static" at d to "upwards:begin" every goal visible
\* in both phases keeps its display position, for every d from null to
\* N - 2 and every catalog.
C36_UpwardStartKeepsRows ==
    [][(animation.type = "static" /\ animation'.type = "upwards:begin") =>
          \A i \in VisibleGoals(animation, Len(goals)) \cap VisibleGoals(animation', Len(goals)) :
              PositionOf(i, animation', Len(goals)) = PositionOf(i, animation, Len(goals))]_vars

\* The three goals of "static" at d >= 1 stayed in rows 0, 1, 2 and a fourth
\* goal appeared in row 3.
C36_Witness ==
    /\ before.type = "static"
    /\ before.doneIndex >= 1
    /\ animation.type = "upwards:begin"
    /\ VisibleGoals(before, Len(goals)) = before.doneIndex..(before.doneIndex + 2)
    /\ VisibleGoals(animation, Len(goals)) = before.doneIndex..(before.doneIndex + 3)
    /\ \A i \in VisibleGoals(before, Len(goals)) :
           PositionOf(i, animation, Len(goals)) = PositionOf(i, before, Len(goals))
    /\ PositionOf(before.doneIndex + 3, animation, Len(goals)) = 3

\* "downwards:begin" and "downwards:moving" carry a goal index, never null.
DownwardHasIndex ==
    animation.type \in {"downwards:begin", "downwards:moving"} => animation.doneIndex # null

\* C37: "downwards:begin" and "downwards:moving" never carry a null
\* doneIndex, a downward animation starts from "static" at a non-null
\* doneIndex only, and doneIndex becomes null only on the step from
\* "downwards:moving" at 0 to "downwards:end".
C37_NullOnlyAfterDownwardFromZero ==
    [][/\ DownwardHasIndex
       /\ DownwardHasIndex'
       /\ (animation'.type = "downwards:begin" /\ animation.type # "downwards:begin")
            => (animation.type = "static" /\ animation.doneIndex # null)
       /\ (animation'.doneIndex = null /\ animation.doneIndex # null)
            => /\ Phase(animation) = <<"downwards:moving", 0>>
               /\ animation'.type = "downwards:end"]_vars

\* A poll resumed a stalled "downwards:moving" at 0 on a long catalog.
C37_Witness ==
    /\ lastOp = "poll"
    /\ Len(goals) = MaxGoals
    /\ Phase(before) = <<"downwards:moving", 0>>
    /\ Phase(animation) = <<"downwards:end", null>>

\* The names of a sort list, in order.
Names(sortBy) == [k \in 1..Len(sortBy) |-> sortBy[k].name]

NoNameTwice(sortBy) ==
    \A j, k \in 1..Len(sortBy) : sortBy[j].name = sortBy[k].name => j = k

\* The sort list without the column `name`, order kept.
Without(sortBy, name) == SelectSeq(sortBy, LAMBDA c : c.name # name)

====
